---------------------------- MODULE Spec2Model ----------------------------
(***************************************************************************)
(* The Flight SQL gateway of the query service                             *)
(* (src/query/service/src/servers/flight_sql/flight_sql_service/service.rs)*)
(* as a state machine: the Session Store, the Prepared Statement Registry, *)
(* the ticket codec and one action per protocol verb.                      *)
(*                                                                         *)
(* Byte strings (handles, tickets, tokens, header values) are sequences of *)
(* integers 0..255; text is its ASCII/UTF-8 bytes.                         *)
(***************************************************************************)
EXTENDS Integers, Sequences, FiniteSets, TLC

(***************************************************************************)
(* Bounds of the model.                                                    *)
(***************************************************************************)
\* how many distinct values the UUID generator can hand out as handles
NumHandles == 2
\* how many distinct session ids the authenticator can hand out
NumTokens == 2
\* how many create / fetch calls may be suspended in an external call at once
MaxInFlight == 2

\* the pipelines that read the system table 'one' at the same time
NumPipelines == 3

\* the generate calls made on one source
MaxGenerate == 3

\* the longest rule list given to the federated matcher
MaxRules == 3

(***************************************************************************)
(* Bytes, hexadecimal text and UTF-8.                                      *)
(***************************************************************************)
Byte == 0..255

\* the ASCII code of the lower-case hexadecimal digit of n (0..15)
HexDigit(n) == IF n < 10 THEN 48 + n ELSE 87 + n

\* the value of an ASCII hexadecimal digit of either case, -1 for any other byte
HexVal(c) ==
    IF c >= 48 /\ c <= 57 THEN c - 48
    ELSE IF c >= 97 /\ c <= 102 THEN c - 87
    ELSE IF c >= 65 /\ c <= 70 THEN c - 55
    ELSE -1

IsCont(b, i) == i <= Len(b) /\ b[i] >= 128 /\ b[i] <= 191

\* the number of bytes of the well-formed UTF-8 scalar starting at b[i], 0 if none
Utf8Width(b, i) ==
    LET c == b[i] IN
    IF c <= 127 THEN 1
    ELSE IF c >= 194 /\ c <= 223 THEN (IF IsCont(b, i + 1) THEN 2 ELSE 0)
    ELSE IF c >= 224 /\ c <= 239 THEN
        (IF /\ IsCont(b, i + 1) /\ IsCont(b, i + 2)
            /\ (c = 224 => b[i + 1] >= 160)
            /\ (c = 237 => b[i + 1] <= 159)
         THEN 3 ELSE 0)
    ELSE IF c >= 240 /\ c <= 244 THEN
        (IF /\ IsCont(b, i + 1) /\ IsCont(b, i + 2) /\ IsCont(b, i + 3)
            /\ (c = 240 => b[i + 1] >= 144)
            /\ (c = 244 => b[i + 1] <= 143)
         THEN 4 ELSE 0)
    ELSE 0

RECURSIVE Utf8From(_, _)
Utf8From(b, i) ==
    IF i > Len(b) THEN TRUE
    ELSE LET w == Utf8Width(b, i) IN
         IF w = 0 THEN FALSE ELSE Utf8From(b, i + w)

\* std::str::from_utf8(b).is_ok()
from_utf8(b) == Utf8From(b, 1)

(***************************************************************************)
(* Uuid: 16 bytes; its text forms.                                         *)
(***************************************************************************)
UuidLen == 16

OkOf(v) == [ok |-> TRUE, val |-> v]
Err == [ok |-> FALSE, val |-> <<>>]

\* Uuid::from_slice: exactly 16 bytes, taken as they are
from_slice(b) == IF Len(b) = UuidLen THEN OkOf(b) ELSE Err

\* Uuid::as_bytes().to_vec(): the 16 raw bytes
as_bytes(u) == u

\* the 32 lower-case hexadecimal digits of a Uuid, high nibble first
\* a hex encoding that writes the low nibble of each byte first
HexOf_LowNibbleFirst(u) ==
    [i \in 1..(2 * UuidLen) |->
        LET byte == u[(i + 1) \div 2] IN
        HexDigit(IF i % 2 = 1 THEN byte % 16 ELSE byte \div 16)]

HexOf(u) ==
    [i \in 1..(2 * UuidLen) |->
        LET byte == u[(i + 1) \div 2] IN
        HexDigit(IF i % 2 = 1 THEN byte \div 16 ELSE byte % 16)]

\* Uuid::to_string(): hyphenated lower-case, 8-4-4-4-12
to_string(u) ==
    LET h == HexOf(u) IN
    SubSeq(h, 1, 8) \o <<45>> \o SubSeq(h, 9, 12) \o <<45>> \o SubSeq(h, 13, 16)
        \o <<45>> \o SubSeq(h, 17, 20) \o <<45>> \o SubSeq(h, 21, 32)

AllHex(s) == \A i \in 1..Len(s) : HexVal(s[i]) >= 0

\* the bytes of 32 hexadecimal digits
FromHex(s) ==
    [k \in 1..UuidLen |-> HexVal(s[2 * k - 1]) * 16 + HexVal(s[2 * k])]

parse_simple(s) == IF Len(s) = 32 /\ AllHex(s) THEN OkOf(FromHex(s)) ELSE Err

parse_hyphenated(s) ==
    IF /\ Len(s) = 36
       /\ s[9] = 45 /\ s[14] = 45 /\ s[19] = 45 /\ s[24] = 45
    THEN parse_simple(SubSeq(s, 1, 8) \o SubSeq(s, 10, 13) \o SubSeq(s, 15, 18)
                        \o SubSeq(s, 20, 23) \o SubSeq(s, 25, 36))
    ELSE Err

UrnPrefix == <<117, 114, 110, 58, 117, 117, 105, 100, 58>>

\* Uuid::try_parse on the bytes of a str: simple, hyphenated, braced or urn form
try_parse(s) ==
    IF Len(s) = 32 THEN parse_simple(s)
    ELSE IF Len(s) = 36 THEN parse_hyphenated(s)
    ELSE IF Len(s) = 38 /\ s[1] = 123 /\ s[38] = 125
        THEN parse_hyphenated(SubSeq(s, 2, 37))
    ELSE IF Len(s) = 45 /\ SubSeq(s, 1, 9) = UrnPrefix
        THEN parse_hyphenated(SubSeq(s, 10, 45))
    ELSE Err

(***************************************************************************)
(* Protocol-buffers wire format, as prost reads and writes it.             *)
(***************************************************************************)
VErr == [ok |-> FALSE, val |-> 0, next |-> 0]

\* prost::encoding::decode_varint: at most 10 bytes, little-endian base 128
RECURSIVE VarintFrom(_, _, _, _, _)
VarintFrom(b, pos, n, mult, acc) ==
    IF pos > Len(b) THEN VErr
    ELSE LET c == b[pos] IN
         IF n = 9 THEN (IF c < 2 THEN [ok |-> TRUE, val |-> acc + c * mult, next |-> pos + 1]
                        ELSE VErr)
         ELSE IF c < 128 THEN [ok |-> TRUE, val |-> acc + c * mult, next |-> pos + 1]
         ELSE VarintFrom(b, pos + 1, n + 1, mult * 128, acc + (c - 128) * mult)

decode_varint(b, pos) == VarintFrom(b, pos, 0, 1, 0)

\* prost::encoding::encode_varint
RECURSIVE encode_varint(_)
encode_varint(v) ==
    IF v < 128 THEN <<v>> ELSE <<128 + (v % 128)>> \o encode_varint(v \div 128)

\* a length-delimited field: key (tag << 3 | 2), length, payload
EncodeLenDelim(tag, data) ==
    encode_varint(tag * 8 + 2) \o encode_varint(Len(data)) \o data

\* proto3 scalar fields are written only when they are not the default (empty)
EncodeField(tag, data) == IF data = <<>> THEN <<>> ELSE EncodeLenDelim(tag, data)

FErr == [ok |-> FALSE, tag |-> 0, wt |-> 0, data |-> <<>>, next |-> 0]

Field(tag, wt, data, next) == [ok |-> TRUE, tag |-> tag, wt |-> wt, data |-> data, next |-> next]

\* prost's recursion limit for nested groups and messages
RecursionLimit == 100

\* a varint payload, read as v
VarintField(tag, v) == IF v.ok THEN Field(tag, 0, <<>>, v.next) ELSE FErr

\* a fixed payload of n bytes at pos
FixedField(b, tag, wt, pos, n) ==
    IF pos + n - 1 <= Len(b) THEN Field(tag, wt, <<>>, pos + n) ELSE FErr

\* a length-delimited payload whose length was read as l
LenField(b, tag, l) ==
    IF l.ok /\ l.next + l.val - 1 <= Len(b)
    THEN Field(tag, 2, SubSeq(b, l.next, l.next + l.val - 1), l.next + l.val)
    ELSE FErr

\* the payload after a key, by wire type: varint (0), 64-bit (1), length-delimited
\* (2), 32-bit (5); a group key (3, 4) has none
PayloadAt(b, tag, wt, pos) ==
    IF wt > 5 \/ tag < 1 THEN FErr
    ELSE IF wt = 0 THEN VarintField(tag, decode_varint(b, pos))
    ELSE IF wt = 1 THEN FixedField(b, tag, wt, pos, 8)
    ELSE IF wt = 5 THEN FixedField(b, tag, wt, pos, 4)
    ELSE IF wt = 2 THEN LenField(b, tag, decode_varint(b, pos))
    ELSE Field(tag, wt, <<>>, pos)

\* decode_key, then the payload
KeyedAt(b, k) == IF k.ok THEN PayloadAt(b, k.val \div 8, k.val % 8, k.next) ELSE FErr

ReadKeyed(b, pos) == KeyedAt(b, decode_varint(b, pos))

\* skip_field inside groups: f is the field just read, `open` the tags of the groups
\* entered and not yet left; the position after the end key of the outermost, 0 on error
RECURSIVE SkipGroups(_, _, _)
SkipGroups(b, open, f) ==
    IF ~f.ok THEN 0
    ELSE IF f.wt = 3 THEN
        (IF Len(open) >= RecursionLimit THEN 0
         ELSE SkipGroups(b, Append(open, f.tag), ReadKeyed(b, f.next)))
    ELSE IF f.wt = 4 THEN
        (IF f.tag # open[Len(open)] THEN 0
         ELSE IF Len(open) = 1 THEN f.next
         ELSE SkipGroups(b, SubSeq(open, 1, Len(open) - 1), ReadKeyed(b, f.next)))
    ELSE SkipGroups(b, open, ReadKeyed(b, f.next))

\* a group, skipped to position e
GroupField(f, e) == IF e > 0 THEN [f EXCEPT !.next = e] ELSE FErr

\* a field whose key and plain payload were read as f
FieldOf(b, f) ==
    IF ~f.ok \/ f.wt = 4 THEN FErr
    ELSE IF f.wt = 3 THEN GroupField(f, SkipGroups(b, <<f.tag>>, ReadKeyed(b, f.next)))
    ELSE f

\* one field at b[pos]: its key, and its payload taken or skipped by wire type
ReadField(b, pos) == FieldOf(b, ReadKeyed(b, pos))

\* the fields from f on, after those of acc
RECURSIVE FieldsFrom(_, _, _)
FieldsFrom(b, acc, f) ==
    IF ~f.ok THEN [ok |-> FALSE, fields |-> <<>>]
    ELSE IF f.next > Len(b) THEN [ok |-> TRUE, fields |-> Append(acc, f)]
    ELSE FieldsFrom(b, Append(acc, f), ReadField(b, f.next))

\* all the fields of a message, in order; ok is FALSE when the bytes are not a message
ParseFields(b) ==
    IF b = <<>> THEN [ok |-> TRUE, fields |-> <<>>]
    ELSE FieldsFrom(b, <<>>, ReadField(b, 1))

\* the payload of the last field with this tag, the default (empty) if there is none
RECURSIVE LastOf(_, _, _)
LastOf(fields, tag, i) ==
    IF i = 0 THEN <<>>
    ELSE IF fields[i].tag = tag THEN fields[i].data
    ELSE LastOf(fields, tag, i - 1)

FieldValue(fields, tag) == LastOf(fields, tag, Len(fields))

(***************************************************************************)
(* The ticket: FetchResults { handle: string } wrapped in an Any.          *)
(***************************************************************************)
\* "type.googleapis.com/arrow.flight.protocol.sql.FetchResults"
type_url ==
    <<116, 121, 112, 101, 46, 103, 111, 111, 103, 108, 101, 97, 112, 105, 115,
      46, 99, 111, 109, 47, 97, 114, 114, 111, 119, 46, 102, 108, 105, 103,
      104, 116, 46, 112, 114, 111, 116, 111, 99, 111, 108, 46, 115, 113, 108,
      46, 70, 101, 116, 99, 104, 82, 101, 115, 117, 108, 116, 115>>

\* prost::Message::encode_to_vec of FetchResults: string handle = 1
FetchResults_encode(fetch) == EncodeField(1, fetch.handle)

\* FetchResults from the fields of a message; unknown fields are skipped
FetchResultsOf(p) ==
    IF /\ p.ok
       /\ \A i \in 1..Len(p.fields) :
            p.fields[i].tag = 1 => (p.fields[i].wt = 2 /\ from_utf8(p.fields[i].data))
    THEN OkOf([handle |-> FieldValue(p.fields, 1)])
    ELSE Err

\* prost::Message::decode of FetchResults
FetchResults_decode(b) == FetchResultsOf(ParseFields(b))

\* ProstMessageExt::as_any of FetchResults
as_any(fetch) == [type_url |-> type_url, value |-> FetchResults_encode(fetch)]

\* prost::Message::encode_to_vec of Any: string type_url = 1, bytes value = 2
Any_encode(any) == EncodeField(1, any.type_url) \o EncodeField(2, any.value)

\* Any from the fields of a message
AnyOf(p) ==
    IF /\ p.ok
       /\ \A i \in 1..Len(p.fields) :
            /\ p.fields[i].tag = 1 => (p.fields[i].wt = 2 /\ from_utf8(p.fields[i].data))
            /\ p.fields[i].tag = 2 => p.fields[i].wt = 2
    THEN OkOf([type_url |-> FieldValue(p.fields, 1), value |-> FieldValue(p.fields, 2)])
    ELSE Err

\* prost::Message::decode of Any
Any_decode(b) == AnyOf(ParseFields(b))

\* Some(m) of a decoded record, or the decode error
Unpacked(m) ==
    IF m.ok THEN [ok |-> TRUE, some |-> TRUE, val |-> m.val]
    ELSE [ok |-> FALSE, some |-> FALSE, val |-> <<>>]

\* Any::unpack::<FetchResults>: Ok(None) on another type tag, Err on a bad record
unpack(any) ==
    IF any.type_url # type_url THEN [ok |-> TRUE, some |-> FALSE, val |-> <<>>]
    ELSE Unpacked(FetchResults_decode(any.value))

\* the ticket get_flight_info_prepared_statement mints for a handle
MintTicket(handle) == Any_encode(as_any([handle |-> to_string(handle)]))

(***************************************************************************)
(* The values the external collaborators hand out.                         *)
(***************************************************************************)
\* the i-th value of the UUID generator: a version-4 Uuid.  Odd i give bytes that
\* happen to be well-formed UTF-8, even i bytes that are not.
UuidOf(i) ==
    [k \in 1..UuidLen |->
        IF k = 7 THEN 64 + (i % 16)
        ELSE IF k = 8 THEN (IF i % 2 = 1 THEN 194 + (i % 30) ELSE (i * 37 + 88) % 128)
        ELSE IF k = 9 THEN 128 + ((i * 5) % 64)
        ELSE (i * 37 + k * 11) % 128]

\* the handles Uuid::new_v4 can return
Handles == {UuidOf(i) : i \in 1..NumHandles}

\* the session ids the authenticator can mint (the text of a Uuid)
Tokens == {to_string(UuidOf(NumHandles + i)) : i \in 1..NumTokens}

\* "Bearer "
Bearer == <<66, 101, 97, 114, 101, 114, 32>>

\* the queries clients send: two the planner accepts, one it rejects
Queries == {"SELECT 1", "SELECT 'a'", "SELEC"}

\* FlightSqlServiceImpl::plan_sql: (plan, extras) for a query the planner accepts
plan_sql(sql) ==
    IF sql = "SELECT 1"
    THEN [ok |-> TRUE,
          val |-> [plan |-> [sql |-> sql, schema |-> <<[name |-> "1", type |-> "UInt8"]>>],
                   extras |-> "extras"]]
    ELSE IF sql = "SELECT 'a'"
    THEN [ok |-> TRUE,
          val |-> [plan |-> [sql |-> sql, schema |-> <<[name |-> "'a'", type |-> "String"]>>],
                   extras |-> "extras"]]
    ELSE [ok |-> FALSE, val |-> [plan |-> [sql |-> sql, schema |-> <<>>], extras |-> ""]]

\* SchemaAsIpc -> IpcMessage: the schema in the wire's schema-exchange format
SchemaAsIpc(schema) == <<"ipc", schema>>

NoSchema == <<"none", <<>>>>

\* credentials in the request metadata of a handshake
Credentials ==
    {[kind |-> "basic", user |-> "root", password |-> ""],
     [kind |-> "basic", user |-> "root", password |-> "wrong"],
     [kind |-> "missing", user |-> "", password |-> ""]}

NoCredentials == [kind |-> "none", user |-> "", password |-> ""]

\* FlightSqlServiceImpl::get_user_password: the pair in the metadata, or an error text
get_user_password(creds) ==
    IF creds.kind = "basic" THEN OkOf(<<creds.user, creds.password>>)
    ELSE [ok |-> FALSE, val |-> <<"", "">>]

\* the authenticator's verdict on a user and password
ValidLogin(user, password) == user = "root" /\ password = ""

\* the authorization metadata a request may carry: none, or a bearer token
\* the text of a session id that the authenticator never mints
ForgedToken == to_string(UuidOf(NumHandles + NumTokens + 1))

AuthInputs == {<<>>} \cup {Bearer \o t : t \in Tokens \cup {ForgedToken}}

(***************************************************************************)
(* What clients send.                                                      *)
(***************************************************************************)
\* "zz": text that is no Uuid
NotAUuid == <<122, 122>>

\* prepared_statement_handle bytes: the raw bytes create returns and the text of
\* the same handle (each is no handle at all when read the other way)
HandleInputs == {as_bytes(h) : h \in Handles} \cup {to_string(h) : h \in Handles}

\* tickets: the minted ones, and malformed ones (no envelope, another type tag,
\* a bad handle text)
TicketInputs ==
    {MintTicket(h) : h \in Handles}
        \cup {<<255>>,
              Any_encode([type_url |-> <<120>>,
                          value |-> FetchResults_encode([handle |-> to_string(UuidOf(1))])]),
              Any_encode(as_any([handle |-> NotAUuid]))}

(***************************************************************************)
(* State.                                                                  *)
(***************************************************************************)
VARIABLES
    sessions,    \* the Session Store: token -> session
    statements,  \* the Prepared Statement Registry: handle -> (plan, extras)
    issued,      \* the session ids the authenticator has minted
    generated,   \* the Uuids that new_v4 has handed out
    inflight,    \* calls suspended in the planner or the executor
    resp,        \* the last completed call: its request and its response
    federated,   \* the last call of the federated matcher: its arguments and its result
    sources,     \* OneSource.0 of the source of each pipeline, once read2 has created it
    outputs      \* what the generate calls on each pipeline's source have returned

vars == <<sessions, statements, issued, generated, inflight, resp, federated, sources, outputs>>

\* the state outside the Flight SQL service
helpers == <<federated, sources, outputs>>

NoEntry == [plan |-> [sql |-> "", schema |-> <<>>], extras |-> ""]

\* a request as the handler saw it: whether its authorization metadata named a
\* session of the store, and the verb's argument
Request(authed, bytes, sql, creds) ==
    [authed |-> authed, session |-> <<>>, bytes |-> bytes, sql |-> sql, creds |-> creds]

\* the request of a handler that keeps the session it looked up (create passes
\* it to the planner, fetch to the executor): session is the id of that session
SessionRequest(session, bytes, sql) ==
    [authed |-> session.ok, session |-> session.val.id, bytes |-> bytes, sql |-> sql,
     creds |-> NoCredentials]

\* a completed call.  status "panic": the handler aborted without a status;
\* entry: the registry entry the handler read or removed, if any.
Response(verb, req, status, message, body, schema, header, entry) ==
    [verb |-> verb, req |-> req, status |-> status, message |-> message,
     body |-> body, schema |-> schema, header |-> header, entry |-> entry]

Failed(verb, req, status, message) ==
    Response(verb, req, status, message, <<>>, NoSchema, <<>>, NoEntry)

\* DashMap::insert
Insert(map, key, value) == [k \in DOMAIN map \cup {key} |-> IF k = key THEN value ELSE map[k]]

\* DashMap::remove
Remove(map, key) == [k \in DOMAIN map \ {key} |-> map[k]]

\* the handles on which a suspended fetch holds the entry guard of statements.get
Guarded == {c.handle : c \in {d \in inflight : d.verb = "do_get_fallback"}}

\* FlightSqlServiceImpl::get_session: the session of the bearer token in the metadata
get_session(auth) ==
    IF /\ Len(auth) > Len(Bearer)
       /\ SubSeq(auth, 1, Len(Bearer)) = Bearer
       /\ SubSeq(auth, Len(Bearer) + 1, Len(auth)) \in DOMAIN sessions
    THEN OkOf(sessions[SubSeq(auth, Len(Bearer) + 1, Len(auth))])
    ELSE [ok |-> FALSE, val |-> [id |-> <<>>, user |-> ""]]

\* Option<T>
None == <<>>
Some(x) == <<x>>

\* a call of the federated matcher that has not returned
MatcherCall(fn, query, rules) ==
    [fn |-> fn, query |-> query, rules |-> rules,
     returned |-> FALSE, panicked |-> FALSE, result |-> None, invoked |-> <<>>]

\* no call of the federated matcher
NoCall == MatcherCall("none", <<>>, <<>>)

\* the pipelines that read the system table 'one'
Pipelines == 1..NumPipelines

\* struct OneSource(Option<DataBlock>), in a pipeline
OneSource(block) == [created |-> TRUE, block |-> block]

\* a pipeline to which read2 has not yet added its source
NotCreated == [created |-> FALSE, block |-> None]

\* the Flight SQL service after construction
InitService ==
    /\ sessions = <<>>
    /\ statements = <<>>
    /\ issued = {}
    /\ generated = {}
    /\ inflight = {}
    /\ resp = Failed("none", Request(FALSE, <<>>, "", NoCredentials), "none", "")

Init ==
    /\ InitService
    /\ federated = NoCall
    /\ sources = [p \in Pipelines |-> NotCreated]
    /\ outputs = [p \in Pipelines |-> <<>>]

(***************************************************************************)
(* The handlers.                                                           *)
(***************************************************************************)
\* MetadataValue::try_from: visible ASCII, space, tab or obs-text
IsHeaderValue(b) == \A i \in 1..Len(b) : (b[i] >= 32 /\ b[i] # 127) \/ b[i] = 9

\* FlightSqlServiceImpl::auth_user_password: the session of a login, with a fresh id
auth_user_password(user, password, id) ==
    IF ValidLogin(user, password) THEN OkOf([id |-> id, user |-> user])
    ELSE [ok |-> FALSE, val |-> [id |-> <<>>, user |-> ""]]

\* the session ids the session manager may give the next session
FreshIds == Tokens \ issued

\* token.as_bytes().to_vec(): the payload of a HandshakeResponse
as_payload(token) == token

\* a handshake that reports the authenticator's rejection as invalid-argument
do_handshake_Conflated(creds) ==
    LET req == Request(FALSE, <<>>, "", creds)
        up == get_user_password(creds)
    IN
    /\ UNCHANGED <<statements, generated, inflight>>
    /\ IF ~up.ok \/ ~auth_user_password(up.val[1], up.val[2], <<>>).ok
       THEN /\ resp' = Failed("do_handshake", req, "invalid_argument", "credentials")
            /\ UNCHANGED <<sessions, issued>>
       ELSE \E id \in FreshIds :
            /\ issued' = issued \cup {id}
            /\ sessions' = Insert(sessions, id, auth_user_password(up.val[1], up.val[2], id).val)
            /\ resp' = Response("do_handshake", req, "ok", "", <<as_payload(id)>>,
                                NoSchema, Bearer \o id, NoEntry)

\* a handshake that stores the session under the bearer string of the header
do_handshake_KeyedByHeader(creds) ==
    LET req == Request(FALSE, <<>>, "", creds)
        up == get_user_password(creds)
    IN
    /\ UNCHANGED <<statements, generated, inflight>>
    /\ IF ~up.ok
       THEN /\ resp' = Failed("do_handshake", req, "invalid_argument", "credentials")
            /\ UNCHANGED <<sessions, issued>>
       ELSE IF ~auth_user_password(up.val[1], up.val[2], <<>>).ok
       THEN /\ resp' = Failed("do_handshake", req, "unauthenticated", "rejected")
            /\ UNCHANGED <<sessions, issued>>
       ELSE \E id \in FreshIds :
            /\ issued' = issued \cup {id}
            /\ sessions' = Insert(sessions, Bearer \o id,
                                  auth_user_password(up.val[1], up.val[2], id).val)
            /\ resp' = Response("do_handshake", req, "ok", "", <<as_payload(id)>>,
                                NoSchema, Bearer \o id, NoEntry)

\* a handshake that returns the token without storing the session
do_handshake_NotStored(creds) ==
    LET req == Request(FALSE, <<>>, "", creds)
        up == get_user_password(creds)
    IN
    /\ UNCHANGED <<statements, generated, inflight, sessions>>
    /\ IF ~up.ok
       THEN /\ resp' = Failed("do_handshake", req, "invalid_argument", "credentials")
            /\ UNCHANGED issued
       ELSE IF ~auth_user_password(up.val[1], up.val[2], <<>>).ok
       THEN /\ resp' = Failed("do_handshake", req, "unauthenticated", "rejected")
            /\ UNCHANGED issued
       ELSE \E id \in FreshIds :
            /\ issued' = issued \cup {id}
            /\ resp' = Response("do_handshake", req, "ok", "", <<as_payload(id)>>,
                                NoSchema, Bearer \o id, NoEntry)

do_handshake(creds) ==
    LET req == Request(FALSE, <<>>, "", creds)
        up == get_user_password(creds)
    IN
    /\ UNCHANGED <<statements, generated, inflight>>
    /\ IF ~up.ok
       THEN /\ resp' = Failed("do_handshake", req, "invalid_argument", "credentials")
            /\ UNCHANGED <<sessions, issued>>
       ELSE IF ~auth_user_password(up.val[1], up.val[2], <<>>).ok
       THEN /\ resp' = Failed("do_handshake", req, "unauthenticated", "rejected")
            /\ UNCHANGED <<sessions, issued>>
       ELSE \E id \in FreshIds :
            LET session == auth_user_password(up.val[1], up.val[2], id).val
                token == session.id
                str == Bearer \o token
            IN
            /\ issued' = issued \cup {id}
            /\ IF ~IsHeaderValue(str)
               THEN /\ resp' = Failed("do_handshake", req, "internal",
                                      "authorization not parsable")
                    /\ UNCHANGED sessions
               ELSE /\ sessions' = Insert(sessions, token, session)
                    /\ resp' = Response("do_handshake", req, "ok", "", <<as_payload(token)>>,
                                        NoSchema, str, NoEntry)

\* the least call slot that is free
FreeSlot == CHOOSE i \in 1..MaxInFlight :
                /\ \A c \in inflight : c.id # i
                /\ \A j \in 1..(i - 1) : \E c \in inflight : c.id = j

CanSuspend == Cardinality(inflight) < MaxInFlight

\* a suspended call: what its handler holds across the .await
Call(verb, req, handle, entry) ==
    [id |-> FreeSlot, verb |-> verb, req |-> req, handle |-> handle, entry |-> entry]

\* a generator that may hand out a value a second time
new_v4_Repeating == Handles

\* Uuid::new_v4: a value the generator has not handed out before
new_v4 == Handles \ generated

\* do_action_create_prepared_statement up to plan_sql(..).await
do_action_create_prepared_statement(auth, sql) ==
    LET session == get_session(auth)
        req == SessionRequest(session, <<>>, sql)
        verb == "do_action_create_prepared_statement"
    IN
    /\ UNCHANGED <<sessions, statements, issued>>
    /\ IF ~session.ok
       THEN /\ resp' = Failed(verb, req, "unauthenticated", "session")
            /\ UNCHANGED <<generated, inflight>>
       ELSE /\ CanSuspend
            /\ \E handle \in new_v4 :
                /\ generated' = generated \cup {handle}
                /\ inflight' = inflight \cup {Call(verb, req, handle, NoEntry)}
            /\ UNCHANGED resp

\* a create that stores, with the plan, the session that created it
create_prepared_statement_planned_SessionScoped(c, serialized) ==
    LET plan == plan_sql(c.req.sql) IN
    /\ c.verb = "do_action_create_prepared_statement"
    /\ inflight' = inflight \ {c}
    /\ UNCHANGED <<sessions, issued, generated>>
    /\ IF ~plan.ok
       THEN /\ resp' = Failed(c.verb, c.req, "internal", "Error getting result schema")
            /\ UNCHANGED statements
       ELSE /\ c.handle \notin Guarded
            /\ statements' = Insert(statements, c.handle,
                                    [plan |-> plan.val.plan, extras |-> plan.val.extras,
                                     owner |-> c.req.session])
            /\ resp' = IF ~serialized
                       THEN Failed(c.verb, c.req, "internal", "Unable to serialize schema")
                       ELSE Response(c.verb, c.req, "ok", "", as_bytes(c.handle),
                                     SchemaAsIpc(plan.val.plan.schema), <<>>, NoEntry)

\* do_action_create_prepared_statement from the planner's answer on
create_prepared_statement_planned(c, serialized) ==
    LET plan == plan_sql(c.req.sql) IN
    /\ c.verb = "do_action_create_prepared_statement"
    /\ inflight' = inflight \ {c}
    /\ UNCHANGED <<sessions, issued, generated>>
    /\ IF ~plan.ok
       THEN /\ resp' = Failed(c.verb, c.req, "internal", "Error getting result schema")
            /\ UNCHANGED statements
       ELSE /\ c.handle \notin Guarded
            /\ statements' = Insert(statements, c.handle, plan.val)
            /\ resp' = IF ~serialized
                       THEN Failed(c.verb, c.req, "internal", "Unable to serialize schema")
                       ELSE Response(c.verb, c.req, "ok", "", as_bytes(c.handle),
                                     SchemaAsIpc(plan.val.plan.schema), <<>>, NoEntry)

\* std::str::from_utf8 and then Uuid::try_parse, as close reads the handle bytes
ParseHandleText(bytes) == IF from_utf8(bytes) THEN try_parse(bytes) ELSE Err

\* ParseHandleText, evaluated once for each of the byte strings clients send
ParsedHandleTexts == [b \in HandleInputs |-> ParseHandleText(b)]

\* a close that removes the entry without looking at the session check
CloseTarget_Unchecked(authed, bytes) ==
    IF ParsedHandleTexts[bytes].ok THEN {ParsedHandleTexts[bytes].val} ELSE {}

\* a close that empties the registry
CloseTarget_All(authed, bytes) ==
    IF authed /\ ParsedHandleTexts[bytes].ok THEN DOMAIN statements ELSE {}

\* the handle whose entry close removes: none when the session check or the parse fails
CloseTarget(authed, bytes) ==
    IF authed /\ ParsedHandleTexts[bytes].ok THEN {ParsedHandleTexts[bytes].val} ELSE {}

\* what self.statements.remove(&handle) returns (and close drops): the entry it
\* took out of the registry, if there was one
Removed(target) ==
    IF target \cap DOMAIN statements = {} THEN NoEntry
    ELSE statements[CHOOSE h \in target \cap DOMAIN statements : TRUE]

do_action_close_prepared_statement(auth, bytes) ==
    LET session == get_session(auth)
        target == CloseTarget(session.ok, bytes)
    IN
    /\ target \cap Guarded = {}
    /\ statements' = [k \in DOMAIN statements \ target |-> statements[k]]
    /\ resp' = Response("do_action_close_prepared_statement",
                        Request(session.ok, bytes, "", NoCredentials),
                        "ok", "", <<>>, NoSchema, <<>>, Removed(target))
    /\ UNCHANGED <<sessions, issued, generated, inflight>>

\* MintTicket, evaluated once for each handle
MintedTickets == [h \in Handles |-> MintTicket(h)]

\* a get flight info that returns the schema of an empty plan
get_flight_info_prepared_statement_DefaultSchema(auth, bytes, serialized) ==
    LET _session == get_session(auth)
        req == Request(_session.ok, bytes, "", NoCredentials)
        handle == from_slice(bytes)
        verb == "get_flight_info_prepared_statement"
    IN
    /\ UNCHANGED <<sessions, statements, issued, generated, inflight>>
    /\ resp' =
        IF ~handle.ok THEN Failed(verb, req, "internal", "Error decoding handle")
        ELSE IF handle.val \notin DOMAIN statements THEN Failed(verb, req, "panic", "unwrap")
        ELSE IF ~serialized THEN Failed(verb, req, "internal", "Unable to serialize schema")
        ELSE Response(verb, req, "ok", "", MintedTickets[handle.val],
                      SchemaAsIpc(<<>>), <<>>, statements[handle.val])

\* a get flight info that takes the entry out of the registry to describe it
get_flight_info_prepared_statement_Consuming(auth, bytes, serialized) ==
    LET _session == get_session(auth)
        req == Request(_session.ok, bytes, "", NoCredentials)
        handle == from_slice(bytes)
        verb == "get_flight_info_prepared_statement"
    IN
    /\ UNCHANGED <<sessions, issued, generated, inflight>>
    /\ statements' = IF handle.ok /\ handle.val \notin Guarded
                     THEN Remove(statements, handle.val) ELSE statements
    /\ resp' =
        IF ~handle.ok THEN Failed(verb, req, "internal", "Error decoding handle")
        ELSE IF handle.val \notin DOMAIN statements THEN Failed(verb, req, "panic", "unwrap")
        ELSE IF ~serialized THEN Failed(verb, req, "internal", "Unable to serialize schema")
        ELSE Response(verb, req, "ok", "", MintedTickets[handle.val],
                      SchemaAsIpc(statements[handle.val].plan.schema), <<>>,
                      statements[handle.val])

\* "grpc+tcp://127.0.0.1" is the location of every endpoint
get_flight_info_prepared_statement(auth, bytes, serialized) ==
    LET _session == get_session(auth)
        req == Request(_session.ok, bytes, "", NoCredentials)
        handle == from_slice(bytes)
        verb == "get_flight_info_prepared_statement"
    IN
    /\ UNCHANGED <<sessions, statements, issued, generated, inflight>>
    /\ resp' =
        IF ~handle.ok THEN Failed(verb, req, "internal", "Error decoding handle")
        ELSE IF handle.val \notin DOMAIN statements THEN Failed(verb, req, "panic", "unwrap")
        ELSE IF ~serialized THEN Failed(verb, req, "internal", "Unable to serialize schema")
        ELSE Response(verb, req, "ok", "", MintedTickets[handle.val],
                      SchemaAsIpc(statements[handle.val].plan.schema), <<>>,
                      statements[handle.val])

\* Uuid::try_parse(&fetch_results.handle): "error" is the status of a bad handle text
HandleOfText(handle) ==
    IF handle.ok THEN [kind |-> "ok", handle |-> handle.val]
    ELSE [kind |-> "error", handle |-> <<>>]

\* any.unpack().unwrap().unwrap(): "panic" is an unwrap on Err or on None
HandleOfUnpacked(fetch_results) ==
    IF ~fetch_results.ok \/ ~fetch_results.some THEN [kind |-> "panic", handle |-> <<>>]
    ELSE HandleOfText(try_parse(fetch_results.val.handle))

\* Any::decode(&mut buf).unwrap(): "panic" is an unwrap on Err
HandleOfAny(any) ==
    IF ~any.ok THEN [kind |-> "panic", handle |-> <<>>]
    ELSE HandleOfUnpacked(unpack(any.val))

\* the handle of a ticket, as do_get_fallback reads it
DecodeTicket(ticket) == HandleOfAny(Any_decode(ticket))

\* DecodeTicket, evaluated once for each of the tickets clients send
DecodedTickets == [t \in TicketInputs |-> DecodeTicket(t)]

\* do_get_fallback up to execute_plan(..).await
do_get_fallback(auth, ticket) ==
    LET session == get_session(auth)
        req == SessionRequest(session, ticket, "")
        t == DecodedTickets[ticket]
        verb == "do_get_fallback"
    IN
    /\ UNCHANGED <<sessions, statements, issued, generated>>
    /\ IF ~session.ok
       THEN resp' = Failed(verb, req, "unauthenticated", "session") /\ UNCHANGED inflight
       ELSE IF t.kind = "panic"
       THEN resp' = Failed(verb, req, "panic", "unwrap") /\ UNCHANGED inflight
       ELSE IF t.kind = "error"
       THEN resp' = Failed(verb, req, "internal", "do_get_fallback Error decoding handle")
            /\ UNCHANGED inflight
       ELSE IF t.handle \notin DOMAIN statements
       THEN resp' = Failed(verb, req, "panic", "unwrap") /\ UNCHANGED inflight
       ELSE /\ CanSuspend
            /\ inflight' = inflight \cup {Call(verb, req, t.handle, statements[t.handle])}
            /\ UNCHANGED resp

\* a fetch that drops the entry once it has been executed
do_get_fallback_executed_SingleUse(c, executed) ==
    /\ c.verb = "do_get_fallback"
    /\ inflight' = inflight \ {c}
    /\ statements' = Remove(statements, c.handle)
    /\ UNCHANGED <<sessions, issued, generated>>
    /\ resp' = IF ~executed THEN Failed(c.verb, c.req, "internal", "fail to execute")
               ELSE Response(c.verb, c.req, "ok", "", <<>>, NoSchema, <<>>, c.entry)

\* do_get_fallback from the executor's answer on; the entry guard is dropped at return
do_get_fallback_executed(c, executed) ==
    /\ c.verb = "do_get_fallback"
    /\ inflight' = inflight \ {c}
    /\ UNCHANGED <<sessions, statements, issued, generated>>
    /\ resp' = IF ~executed THEN Failed(c.verb, c.req, "internal", "fail to execute")
               ELSE Response(c.verb, c.req, "ok", "", <<>>, NoSchema, <<>>, c.entry)

(***************************************************************************)
(* The verbs that are not implemented: each answers with its own message.  *)
(***************************************************************************)
\* Err(Status::unimplemented(message)); the request is not looked at
Unimplemented(verb, message) ==
    /\ resp' = Failed(verb, Request(FALSE, <<>>, "", NoCredentials), "unimplemented", message)
    /\ UNCHANGED <<sessions, statements, issued, generated, inflight>>
    /\ UNCHANGED helpers

get_flight_info_statement ==
    Unimplemented("get_flight_info_statement", "get_flight_info_statement not implemented")
get_flight_info_catalogs ==
    Unimplemented("get_flight_info_catalogs", "get_flight_info_catalogs not implemented")
get_flight_info_schemas ==
    Unimplemented("get_flight_info_schemas", "get_flight_info_schemas not implemented")
get_flight_info_tables ==
    Unimplemented("get_flight_info_tables", "get_flight_info_tables not implemented")
get_flight_info_table_types ==
    Unimplemented("get_flight_info_table_types", "get_flight_info_table_types not implemented")
get_flight_info_sql_info ==
    Unimplemented("get_flight_info_sql_info", "get_flight_info_sql_info not implemented")
get_flight_info_primary_keys ==
    Unimplemented("get_flight_info_primary_keys", "get_flight_info_primary_keys not implemented")
get_flight_info_exported_keys ==
    Unimplemented("get_flight_info_exported_keys", "get_flight_info_exported_keys not implemented")
get_flight_info_imported_keys ==
    Unimplemented("get_flight_info_imported_keys", "get_flight_info_imported_keys not implemented")
get_flight_info_cross_reference ==
    Unimplemented("get_flight_info_cross_reference", "get_flight_info_imported_keys not implemented")
do_get_statement ==
    Unimplemented("do_get_statement", "do_get_statement not implemented")
do_get_prepared_statement ==
    Unimplemented("do_get_prepared_statement", "do_get_prepared_statement not implemented")
do_get_catalogs ==
    Unimplemented("do_get_catalogs", "do_get_catalogs not implemented")
do_get_schemas ==
    Unimplemented("do_get_schemas", "do_get_schemas not implemented")
do_get_tables ==
    Unimplemented("do_get_tables", "do_get_tables not implemented")
do_get_table_types ==
    Unimplemented("do_get_table_types", "do_get_table_types not implemented")
do_get_sql_info ==
    Unimplemented("do_get_sql_info", "do_get_sql_info not implemented")
do_get_primary_keys ==
    Unimplemented("do_get_primary_keys", "do_get_primary_keys not implemented")
do_get_exported_keys ==
    Unimplemented("do_get_exported_keys", "do_get_exported_keys not implemented")
do_get_imported_keys ==
    Unimplemented("do_get_imported_keys", "do_get_imported_keys not implemented")
do_get_cross_reference ==
    Unimplemented("do_get_cross_reference", "do_get_cross_reference not implemented")
do_put_statement_update ==
    Unimplemented("do_put_statement_update", "do_put_statement_update not implemented")
do_put_prepared_statement_query ==
    Unimplemented("do_put_prepared_statement_query",
                  "do_put_prepared_statement_query not implemented")
do_put_prepared_statement_update ==
    Unimplemented("do_put_prepared_statement_update",
                  "do_put_prepared_statement_update not implemented")

UnimplementedVerbs ==
    {"get_flight_info_statement", "get_flight_info_catalogs", "get_flight_info_schemas",
     "get_flight_info_tables", "get_flight_info_table_types", "get_flight_info_sql_info",
     "get_flight_info_primary_keys", "get_flight_info_exported_keys",
     "get_flight_info_imported_keys", "get_flight_info_cross_reference",
     "do_get_statement", "do_get_prepared_statement", "do_get_catalogs", "do_get_schemas",
     "do_get_tables", "do_get_table_types", "do_get_sql_info", "do_get_primary_keys",
     "do_get_exported_keys", "do_get_imported_keys", "do_get_cross_reference",
     "do_put_statement_update", "do_put_prepared_statement_query",
     "do_put_prepared_statement_update"}

(***************************************************************************)
(* The gateway: any client may call any verb at any time.                  *)
(***************************************************************************)
Handshake ==
    /\ \E creds \in Credentials : do_handshake(creds)
    /\ UNCHANGED helpers

CreatePreparedStatement ==
    /\ \E auth \in AuthInputs, sql \in Queries : do_action_create_prepared_statement(auth, sql)
    /\ UNCHANGED helpers

CreatePlanned ==
    /\ \E c \in inflight, serialized \in BOOLEAN :
            create_prepared_statement_planned(c, serialized)
    /\ UNCHANGED helpers

ClosePreparedStatement ==
    /\ \E auth \in AuthInputs, bytes \in HandleInputs :
            do_action_close_prepared_statement(auth, bytes)
    /\ UNCHANGED helpers

GetFlightInfoPreparedStatement ==
    /\ \E auth \in AuthInputs, bytes \in HandleInputs, serialized \in BOOLEAN :
            get_flight_info_prepared_statement(auth, bytes, serialized)
    /\ UNCHANGED helpers

DoGetFallback ==
    /\ \E auth \in AuthInputs, ticket \in TicketInputs : do_get_fallback(auth, ticket)
    /\ UNCHANGED helpers

DoGetExecuted ==
    /\ \E c \in inflight, executed \in BOOLEAN : do_get_fallback_executed(c, executed)
    /\ UNCHANGED helpers

Next ==
    \/ Handshake
    \/ CreatePreparedStatement
    \/ CreatePlanned
    \/ ClosePreparedStatement
    \/ GetFlightInfoPreparedStatement
    \/ DoGetFallback
    \/ DoGetExecuted
    \/ get_flight_info_statement
    \/ get_flight_info_catalogs
    \/ get_flight_info_schemas
    \/ get_flight_info_tables
    \/ get_flight_info_table_types
    \/ get_flight_info_sql_info
    \/ get_flight_info_primary_keys
    \/ get_flight_info_exported_keys
    \/ get_flight_info_imported_keys
    \/ get_flight_info_cross_reference
    \/ do_get_statement
    \/ do_get_prepared_statement
    \/ do_get_catalogs
    \/ do_get_schemas
    \/ do_get_tables
    \/ do_get_table_types
    \/ do_get_sql_info
    \/ do_get_primary_keys
    \/ do_get_exported_keys
    \/ do_get_imported_keys
    \/ do_get_cross_reference
    \/ do_put_statement_update
    \/ do_put_prepared_statement_query
    \/ do_put_prepared_statement_update

Spec == Init /\ [][Next]_vars

(***************************************************************************)
(* The federated query matcher (servers/federated_helper.rs).  Query texts *)
(* and patterns are sequences of characters.                               *)
(***************************************************************************)
\* the query texts given to the matcher
FederatedQueries ==
    {<<>>, <<"a">>, <<"b">>, <<"a", "a">>, <<"a", "b">>, <<"b", "a">>, <<"b", "b">>}

\* the patterns of the rules: a literal, an anchored literal, an unclosed group
Patterns == {<<"a">>, <<"^", "b">>, <<"(">>}

\* (DataSchemaRefExt::create(vec![]), Chunk::empty())
EmptyResult == [schema |-> <<>>, chunk |-> <<>>]

\* the precomputed (schema, chunk) of a rule, if it has one
CannedData ==
    {None,
     Some([schema |-> <<"version">>, chunk |-> <<"8.0">>]),
     Some([schema |-> <<"database">>, chunk |-> <<"default">>])}

\* LazyBlockFunc: the functions that compute a rule's result from the query
LazyBlockFuncs == {"nothing", "version", "echo"}

func(f, query) ==
    CASE f = "nothing" -> None
      [] f = "version" -> Some([schema |-> <<"version">>, chunk |-> <<"8.0">>])
      [] f = "echo"    -> Some([schema |-> <<"query">>, chunk |-> query])

Rules == [regex : Patterns, data : CannedData]
LazyRules == [regex : Patterns, func : LazyBlockFuncs]

RuleLists == UNION {[1..n -> Rules] : n \in 0..MaxRules}
LazyRuleLists == UNION {[1..n -> LazyRules] : n \in 0..MaxRules}

\* RegexSet::new fails on a pattern that does not parse: here, an unclosed group
RegexSet_new(regex_rules) ==
    IF \A i \in 1..Len(regex_rules) :
           \A k \in 1..Len(regex_rules[i]) : regex_rules[i][k] # "("
    THEN [ok |-> TRUE, val |-> regex_rules]
    ELSE [ok |-> FALSE, val |-> <<>>]

starts_with(text, literal) ==
    /\ Len(literal) <= Len(text)
    /\ SubSeq(text, 1, Len(literal)) = literal

\* a regex search: '^' ties the rest of the pattern to the start of the text,
\* any other pattern is looked for at every position
is_match(regex, text) ==
    IF Len(regex) > 0 /\ regex[1] = "^"
    THEN starts_with(text, Tail(regex))
    ELSE \E k \in 0..Len(text) : starts_with(SubSeq(text, k + 1, Len(text)), regex)

\* RegexSet::matches: the indices of the patterns that match
matches(regex_set, query) ==
    {index \in 1..Len(regex_set) : is_match(regex_set[index], query)}

\* the loop of block_match_rule, from rule `index` on
RECURSIVE block_match_loop(_, _, _)
block_match_loop(rules, matched, index) ==
    IF index > Len(rules) THEN None
    ELSE IF index \in matched
    THEN IF rules[index].data = None
         THEN Some(EmptyResult)
         ELSE Some(rules[index].data[1])
    ELSE block_match_loop(rules, matched, index + 1)

block_match_rule(query, rules) ==
    IF RegexSet_new([i \in 1..Len(rules) |-> rules[i].regex]).ok
    THEN [panicked |-> FALSE,
          result |-> block_match_loop(rules,
                         matches([i \in 1..Len(rules) |-> rules[i].regex], query), 1),
          invoked |-> <<>>]
    ELSE [panicked |-> TRUE, result |-> None, invoked |-> <<>>]

\* the loop of lazy_block_match_rule, from rule `index` on; `invoked` lists the
\* rules whose function was called
RECURSIVE lazy_block_match_loop(_, _, _, _)
lazy_block_match_loop(query, rules, matched, index) ==
    IF index > Len(rules) THEN [result |-> None, invoked |-> <<>>]
    ELSE IF index \in matched
    THEN [result |-> IF func(rules[index].func, query) = None
                     THEN Some(EmptyResult)
                     ELSE func(rules[index].func, query),
          invoked |-> <<index>>]
    ELSE lazy_block_match_loop(query, rules, matched, index + 1)

\* lazy_block_match_rule where a function that returns None hands the query on
\* to the next matching rule
RECURSIVE lazy_block_match_loop_FallThrough(_, _, _, _, _)
lazy_block_match_loop_FallThrough(query, rules, matched, index, invoked) ==
    IF index > Len(rules) THEN [result |-> None, invoked |-> invoked]
    ELSE IF index \in matched /\ func(rules[index].func, query) # None
    THEN [result |-> func(rules[index].func, query), invoked |-> Append(invoked, index)]
    ELSE lazy_block_match_loop_FallThrough(query, rules, matched, index + 1,
             IF index \in matched THEN Append(invoked, index) ELSE invoked)

lazy_block_match_rule_FallThrough(query, rules) ==
    IF RegexSet_new([i \in 1..Len(rules) |-> rules[i].regex]).ok
    THEN [panicked |-> FALSE,
          result |-> lazy_block_match_loop_FallThrough(query, rules,
                         matches([i \in 1..Len(rules) |-> rules[i].regex], query),
                         1, <<>>).result,
          invoked |-> lazy_block_match_loop_FallThrough(query, rules,
                         matches([i \in 1..Len(rules) |-> rules[i].regex], query),
                         1, <<>>).invoked]
    ELSE [panicked |-> TRUE, result |-> None, invoked |-> <<>>]

lazy_block_match_rule(query, rules) ==
    IF RegexSet_new([i \in 1..Len(rules) |-> rules[i].regex]).ok
    THEN [panicked |-> FALSE,
          result |-> lazy_block_match_loop(query, rules,
                         matches([i \in 1..Len(rules) |-> rules[i].regex], query), 1).result,
          invoked |-> lazy_block_match_loop(query, rules,
                         matches([i \in 1..Len(rules) |-> rules[i].regex], query), 1).invoked]
    ELSE [panicked |-> TRUE, result |-> None, invoked |-> <<>>]

\* the call `call` once the matcher has returned `out`, or has panicked
Returned(call, out) ==
    [call EXCEPT !.returned = TRUE, !.panicked = out.panicked,
                 !.result = out.result, !.invoked = out.invoked]

BlockMatchRule ==
    /\ federated.fn = "block_match_rule"
    /\ ~federated.returned
    /\ federated' = Returned(federated, block_match_rule(federated.query, federated.rules))
    /\ UNCHANGED <<sessions, statements, issued, generated, inflight, resp>>
    /\ UNCHANGED <<sources, outputs>>

LazyBlockMatchRule ==
    /\ federated.fn = "lazy_block_match_rule"
    /\ ~federated.returned
    /\ federated' = Returned(federated,
                              lazy_block_match_rule(federated.query, federated.rules))
    /\ UNCHANGED <<sessions, statements, issued, generated, inflight, resp>>
    /\ UNCHANGED <<sources, outputs>>

\* the matcher is called with a query and a rule list of the caller's choice
InitFederated ==
    /\ InitService
    /\ federated \in
           {MatcherCall("block_match_rule", query, rules) :
                query \in FederatedQueries, rules \in RuleLists}
           \cup {MatcherCall("lazy_block_match_rule", query, rules) :
                     query \in FederatedQueries, rules \in LazyRuleLists}
    /\ sources = [p \in Pipelines |-> NotCreated]
    /\ outputs = [p \in Pipelines |-> <<>>]

NextFederated ==
    \/ BlockMatchRule
    \/ LazyBlockMatchRule

SpecFederated == InitFederated /\ [][NextFederated]_vars

(***************************************************************************)
(* The system table 'one' (storages/system/one_table.rs).                  *)
(***************************************************************************)
\* OneTable::create: the schema of the table
OneTable_schema == <<[name |-> "dummy", data_type |-> "UInt8", nullable |-> FALSE]>>

\* DataBlock::create_by_array(schema, vec![Series::new(vec![1u8])])
create_by_array(schema, arrays) == [schema |-> schema, columns |-> arrays]

num_rows(block) == Len(block.columns[1])

\* OneSource::create: the source holds the one block
OneSource_create(schema) == OneSource(Some(create_by_array(schema, <<<<1>>>>)))

\* generate where the block is copied and stays in the source
generate_Cloning(self) == [ret |-> self.block, self |-> self]

\* OneSource::generate: Option::take hands out what the source holds and
\* leaves None in it
generate(self) == [ret |-> self.block, self |-> OneSource(None)]

\* OneTable::read2 adds the source of pipeline p
read2(p) ==
    /\ ~sources[p].created
    /\ sources' = [sources EXCEPT ![p] = OneSource_create(OneTable_schema)]
    /\ UNCHANGED outputs

\* the processor of pipeline p calls generate on its source
Generate(p) ==
    /\ sources[p].created
    /\ Len(outputs[p]) < MaxGenerate
    /\ sources' = [sources EXCEPT ![p] = generate(sources[p]).self]
    /\ outputs' = [outputs EXCEPT ![p] = Append(@, generate(sources[p]).ret)]

Read2 ==
    /\ \E p \in Pipelines : read2(p)
    /\ UNCHANGED <<sessions, statements, issued, generated, inflight, resp, federated>>

OneSourceGenerate ==
    /\ \E p \in Pipelines : Generate(p)
    /\ UNCHANGED <<sessions, statements, issued, generated, inflight, resp, federated>>

NextOne ==
    \/ Read2
    \/ OneSourceGenerate

SpecOne == Init /\ [][NextOne]_vars

(***************************************************************************)
(* Properties.                                                             *)
(***************************************************************************)
CreateVerb == "do_action_create_prepared_statement"
CloseVerb == "do_action_close_prepared_statement"
FlightInfoVerb == "get_flight_info_prepared_statement"
FetchVerb == "do_get_fallback"

\* the verbs that follow a handshake
AuthenticatedVerbs == {CreateVerb, CloseVerb, FlightInfoVerb, FetchVerb}

\* C1 (as claimed): once a close presented by a valid session with exactly the
\* handle bytes create returns for H (its 16 raw bytes) has returned, H is not
\* registered.
C1_CloseEvicts ==
    (/\ resp.verb = CloseVerb
     /\ resp.req.authed
     /\ resp.req.bytes \in {as_bytes(h) : h \in Handles})
        => from_slice(resp.req.bytes).val \notin DOMAIN statements

\* C2 (as claimed): a fetch with a valid session and a well-formed ticket whose
\* handle is not registered ends with a not-found status.
C2_FetchUnknownIsNotFound ==
    (/\ resp.verb = FetchVerb
     /\ resp.req.authed
     /\ DecodedTickets[resp.req.bytes].kind = "ok"
     /\ DecodedTickets[resp.req.bytes].handle \notin DOMAIN statements)
        => resp.status = "not_found"

\* C3: the ticket get flight info returns for H decodes, the way fetch decodes it,
\* to exactly H, and a fetch that redeems H's ticket holds and executes the entry
\* registered under H.
C3_TicketRoundTrip ==
    /\ (resp.verb = FlightInfoVerb /\ resp.status = "ok")
            => /\ DecodeTicket(resp.body)
                    = [kind |-> "ok", handle |-> from_slice(resp.req.bytes).val]
               /\ resp.entry = statements[from_slice(resp.req.bytes).val]
    /\ \A h \in Handles :
        /\ \A c \in inflight :
            (c.verb = FetchVerb /\ c.req.bytes = MintedTickets[h])
                => (c.handle = h /\ h \in DOMAIN statements /\ c.entry = statements[h])
        /\ (resp.verb = FetchVerb /\ resp.status = "ok" /\ resp.req.bytes = MintedTickets[h])
                => (h \in DOMAIN statements /\ resp.entry = statements[h])

\* a fetch has redeemed the ticket minted for a registered handle and executed its entry
C3_Witness ==
    /\ resp.verb = FetchVerb
    /\ resp.status = "ok"
    /\ \E h \in DOMAIN statements :
        resp.req.bytes = MintedTickets[h] /\ resp.entry = statements[h]

\* C4 (as claimed): a fetch on a ticket that is no parsable envelope, or whose
\* envelope carries another type tag, ends with the invalid-argument status.
C4_MalformedTicketIsInvalidArgument ==
    (/\ resp.verb = FetchVerb
     /\ resp.req.authed
     /\ \/ ~Any_decode(resp.req.bytes).ok
        \/ Any_decode(resp.req.bytes).val.type_url # type_url)
        => resp.status = "invalid_argument"

\* C5 (as claimed): create, close, get flight info and fetch, presented with
\* metadata that names no session, end with an authentication error and return
\* no ticket.
C5_SessionCheckedFirst ==
    (resp.verb \in AuthenticatedVerbs /\ ~resp.req.authed)
        => (resp.status = "unauthenticated" /\ resp.body = <<>>)

\* a successful handshake has just returned
HandshakeReturned == resp.verb = "do_handshake" /\ resp.status = "ok"

\* C6: a successful handshake returns a token that was not in the store, and the
\* bearer header it returns passes the lookup from then on; a token passes the
\* lookup exactly when a handshake issued it; only a successful handshake changes
\* the store, and it adds exactly its own token.
C6_TokensIssuedOnceAndKept ==
    [][/\ \A t \in Tokens \cup {ForgedToken} : get_session(Bearer \o t).ok' <=> (t \in issued')
       /\ \A a \in AuthInputs : get_session(a).ok => get_session(a).ok'
       /\ (HandshakeReturned' /\ resp' # resp)
            => /\ resp'.body[1] \notin DOMAIN sessions
               /\ resp'.body[1] \notin issued
               /\ resp'.header = Bearer \o resp'.body[1]
               /\ \E a \in AuthInputs : a = resp'.header /\ get_session(a).ok'
       /\ sessions' # sessions
            => /\ HandshakeReturned'
               /\ DOMAIN sessions' = DOMAIN sessions \cup {resp'.body[1]}
               /\ \A t \in DOMAIN sessions : sessions'[t] = sessions[t]]_vars

\* two handshakes have succeeded, both tokens pass the lookup and a token that
\* no handshake issued does not
C6_Witness ==
    /\ HandshakeReturned
    /\ Cardinality(DOMAIN sessions) >= 2
    /\ \A t \in issued : get_session(Bearer \o t).ok
    /\ ~get_session(Bearer \o ForgedToken).ok

\* C7 (as claimed): an unimplemented verb ends with the unimplemented status and
\* a message that names that verb.
C7_UnimplementedNamesVerb ==
    resp.verb \in UnimplementedVerbs
        => /\ resp.status = "unimplemented"
           /\ resp.message = resp.verb \o " not implemented"

\* the handles that handle bytes name: by their raw bytes or by their text
HandlesNamed(bytes) == {h \in Handles : bytes \in {as_bytes(h), to_string(h)}}

\* a step that returns from close
CloseStep == resp'.verb = CloseVerb /\ (resp' # resp \/ statements' # statements)

\* C8: close returns success whether or not the handle it names is registered;
\* it adds nothing, leaves every entry under another handle as it was, and
\* changes nothing at all when the handle it names is not registered.
C8_CloseIdempotentAndLocal ==
    [][CloseStep
        => /\ resp'.status = "ok"
           /\ DOMAIN statements' \subseteq DOMAIN statements
           /\ \A h \in DOMAIN statements \ HandlesNamed(resp'.req.bytes) :
                h \in DOMAIN statements' /\ statements'[h] = statements[h]
           /\ (HandlesNamed(resp'.req.bytes) \cap DOMAIN statements = {})
                => statements' = statements]_vars

\* a valid session has closed a handle that was created and is no longer (or
\* never was) registered, while another handle's entry is registered
C8_Witness ==
    /\ resp.verb = CloseVerb
    /\ resp.status = "ok"
    /\ resp.req.authed
    /\ ParsedHandleTexts[resp.req.bytes].ok
    /\ ParsedHandleTexts[resp.req.bytes].val \in generated \ DOMAIN statements
    /\ \A c \in inflight : c.handle # ParsedHandleTexts[resp.req.bytes].val
    /\ DOMAIN statements # {}

\* C9 (as claimed): a fetch with a valid session and the ticket of a registered
\* handle succeeds.
C9_FetchAlwaysSucceeds ==
    (/\ resp.verb = FetchVerb
     /\ resp.req.authed
     /\ \E h \in DOMAIN statements : resp.req.bytes = MintedTickets[h])
        => resp.status = "ok"

\* a step of a fetch: its start, its immediate return or its return from the executor
FetchStep ==
    \/ resp'.verb = FetchVerb /\ resp' # resp
    \/ \E c \in inflight' \ inflight : c.verb = FetchVerb
    \/ \E c \in inflight \ inflight' : c.verb = FetchVerb

\* C9 (amended): no step of a fetch changes the registry, and a fetch with a
\* valid session and the ticket of a registered handle H is never turned away:
\* it returns only from the executor, with H's entry when the executor succeeds
\* and with the executor's failure otherwise.
C9_FetchNeverConsumes ==
    [][FetchStep
        => /\ statements' = statements
           /\ \A h \in DOMAIN statements :
                (/\ resp' # resp
                 /\ resp'.verb = FetchVerb
                 /\ resp'.req.authed
                 /\ resp'.req.bytes = MintedTickets[h])
                    => /\ \E c \in inflight \ inflight' : c.handle = h /\ c.entry = statements[h]
                       /\ \/ resp'.status = "ok" /\ resp'.entry = statements'[h]
                          \/ resp'.status = "internal" /\ resp'.message = "fail to execute"]_vars

\* a fetch of H has returned results while a second fetch of the same H, begun
\* before the first returned, is still with the executor
C9_Witness ==
    /\ resp.verb = FetchVerb
    /\ resp.status = "ok"
    /\ \E c \in inflight :
        /\ c.verb = FetchVerb
        /\ c.id = 2
        /\ c.req.bytes = resp.req.bytes
        /\ c.handle \in DOMAIN statements
        /\ resp.entry = statements[c.handle]
    /\ \A c \in inflight : c.id # 1

\* C10: the handles of the create calls in flight are pairwise distinct and not
\* yet registered; a create call with a plannable query registers, when it
\* returns, its own handle with the plan of its own query and leaves every other
\* entry as it was; and an entry changes or goes only by a close that names it.
C10_ConcurrentCreatesDistinct ==
    [][/\ \A c \in inflight' :
            c.verb = CreateVerb
                => /\ c.handle \notin DOMAIN statements'
                   /\ \A d \in inflight' :
                        (d.verb = CreateVerb /\ d.handle = c.handle) => d = c
       /\ \A c \in inflight \ inflight' :
            (c.verb = CreateVerb /\ plan_sql(c.req.sql).ok)
                => /\ c.handle \in DOMAIN statements'
                   /\ statements'[c.handle] = plan_sql(c.req.sql).val
                   /\ \A h \in DOMAIN statements :
                        h \in DOMAIN statements' /\ statements'[h] = statements[h]
                   /\ resp'.status = "ok" => resp'.body = as_bytes(c.handle)
       /\ \A h \in DOMAIN statements :
            (h \notin DOMAIN statements' \/ statements'[h] # statements[h])
                => (CloseStep /\ h \in HandlesNamed(resp'.req.bytes))]_vars

\* a create call has returned its handle, registered with its own plan, while a
\* second create call, begun before the first returned, is still with the planner
C10_Witness ==
    /\ resp.verb = CreateVerb
    /\ resp.status = "ok"
    /\ resp.body \in DOMAIN statements
    /\ statements[resp.body] = plan_sql(resp.req.sql).val
    /\ \E c \in inflight :
        /\ c.verb = CreateVerb
        /\ c.id = 2
        /\ c.handle # resp.body
        /\ plan_sql(c.req.sql).ok
    /\ \A c \in inflight : c.id # 1

\* C11: the dataset schema create returns is the serialized schema of the plan
\* it registers under the handle; the schema get flight info returns is the
\* serialized schema of the plan registered under the handle; the plan a fetch
\* executes is the plan registered under the handle; and an entry never changes
\* while it is registered.
C11_SchemaRoundTrip ==
    [][/\ \A c \in inflight \ inflight' :
            (c.verb = CreateVerb /\ resp'.status = "ok")
                => /\ c.handle \in DOMAIN statements'
                   /\ resp'.schema = SchemaAsIpc(statements'[c.handle].plan.schema)
       /\ (resp'.verb = FlightInfoVerb /\ resp'.status = "ok")
            => /\ from_slice(resp'.req.bytes).val \in DOMAIN statements'
               /\ resp'.schema
                    = SchemaAsIpc(statements'[from_slice(resp'.req.bytes).val].plan.schema)
       /\ \A c \in inflight' :
            c.verb = FetchVerb
                => /\ c.handle \in DOMAIN statements'
                   /\ c.entry.plan = statements'[c.handle].plan
       /\ \A c \in inflight \ inflight' :
            (c.verb = FetchVerb /\ resp'.status = "ok") => resp'.entry = c.entry
       /\ \A h \in DOMAIN statements \cap DOMAIN statements' :
            statements'[h] = statements[h]]_vars

\* get flight info has returned, for a handle registered by a create, the
\* serialized schema of the plan create stored for its query
C11_Witness ==
    /\ resp.verb = FlightInfoVerb
    /\ resp.status = "ok"
    /\ \E q \in Queries :
        /\ plan_sql(q).ok
        /\ statements[from_slice(resp.req.bytes).val] = plan_sql(q).val
        /\ resp.schema = SchemaAsIpc(plan_sql(q).val.plan.schema)

\* a step that returns from a handshake
HandshakeStep == resp'.verb = "do_handshake" /\ (resp' # resp \/ sessions' # sessions)

\* C12: a handshake that fails leaves the session store as it was; it fails
\* with invalid-argument when the metadata carries no readable credentials and
\* with the authentication failure when the authenticator rejects them; the
\* store gains a session exactly when a handshake returns success.
C12_HandshakeFailureKinds ==
    [][/\ HandshakeStep
            => /\ resp'.status # "ok" => sessions' = sessions
               /\ resp'.status = "ok"
                    => /\ resp'.body[1] \notin DOMAIN sessions
                       /\ sessions' = Insert(sessions, resp'.body[1], sessions'[resp'.body[1]])
               /\ ~get_user_password(resp'.req.creds).ok
                    => resp'.status = "invalid_argument"
               /\ (/\ get_user_password(resp'.req.creds).ok
                   /\ ~ValidLogin(resp'.req.creds.user, resp'.req.creds.password))
                    => resp'.status = "unauthenticated"
               /\ (/\ get_user_password(resp'.req.creds).ok
                   /\ ValidLogin(resp'.req.creds.user, resp'.req.creds.password))
                    => resp'.status \notin {"invalid_argument", "unauthenticated"}
       /\ sessions' # sessions => (resp'.verb = "do_handshake" /\ resp'.status = "ok")]_vars

\* the authenticator has rejected a handshake while the store held the session
\* of an earlier, successful one
C12_Witness ==
    /\ resp.verb = "do_handshake"
    /\ resp.status = "unauthenticated"
    /\ resp.req.creds.kind = "basic"
    /\ Cardinality(DOMAIN sessions) = 1

\* C13 (as claimed): a get flight info whose handle bytes are no handle, and a
\* fetch whose ticket carries a handle text that is no handle, end with the
\* invalid-argument status.
C13_BadHandleIsInvalidArgument ==
    (/\ resp.req.authed
     /\ \/ resp.verb = FlightInfoVerb /\ ~from_slice(resp.req.bytes).ok
        \/ resp.verb = FetchVerb /\ DecodedTickets[resp.req.bytes].kind = "error")
        => resp.status = "invalid_argument"

\* C14 (as claimed): a get flight info with a valid session and the bytes of a
\* well-formed handle that is not registered ends with the not-found status and
\* returns no ticket.
C14_FlightInfoUnknownIsNotFound ==
    (/\ resp.verb = FlightInfoVerb
     /\ resp.req.authed
     /\ from_slice(resp.req.bytes).ok
     /\ from_slice(resp.req.bytes).val \notin DOMAIN statements)
        => (resp.status = "not_found" /\ resp.body = <<>>)

\* C15: after a successful handshake the response stream has exactly one
\* element, the header is "Bearer " followed by the bytes of that element's
\* payload, and the payload is the key under which the store holds the session
\* whose id it is.
C15_HandshakeResponseShape ==
    HandshakeReturned
        => /\ Len(resp.body) = 1
           /\ resp.header = Bearer \o resp.body[1]
           /\ resp.body[1] \in DOMAIN sessions
           /\ sessions[resp.body[1]].id = resp.body[1]
           /\ resp.body[1] \in issued

\* a handshake has succeeded with valid credentials and returned a token
C15_Witness ==
    /\ HandshakeReturned
    /\ ValidLogin(resp.req.creds.user, resp.req.creds.password)
    /\ resp.body[1] \in Tokens
    /\ sessions[resp.body[1]].user = resp.req.creds.user

\* C16 (as claimed): a fetch of H that races with a close of H has two
\* outcomes.  A fetch with a valid session and H's ticket that comes after a
\* close has removed H ends with not-found or has executed the entry of H; a
\* fetch that began before the close returns from the executor having executed
\* the complete entry it read under H.
C16_CloseFetchRaceOutcomes ==
    [][/\ \A h \in Handles :
            (/\ resp.verb = CloseVerb
             /\ resp'.verb = FetchVerb
             /\ resp.entry # NoEntry
             /\ resp'.req.authed
             /\ resp'.req.bytes = MintedTickets[h]
             /\ resp.req.bytes = to_string(h))
                => \/ resp'.status = "not_found"
                   \/ resp'.status = "ok" /\ resp'.entry = resp.entry
                   \/ resp'.status = "internal" /\ resp'.message = "fail to execute"
       /\ \A c \in inflight \ inflight' :
            c.verb = FetchVerb
                => /\ c.entry \in {plan_sql(q).val : q \in Queries}
                   /\ \/ resp'.status = "ok" /\ resp'.entry = c.entry
                      \/ resp'.status = "internal" /\ resp'.message = "fail to execute"]_vars

\* C17 (as claimed): a create that returns an error leaves the registry as it
\* was before the call, whether the session lookup, the planner or the schema
\* serialization failed.
C17_CreateRegistersOnlyOnSuccess ==
    [][/\ (resp'.verb = CreateVerb /\ resp' # resp /\ resp'.status # "ok")
            => statements' = statements
       /\ \A c \in inflight \ inflight' :
            (c.verb = CreateVerb /\ resp'.status # "ok") => c.handle \notin DOMAIN statements']_vars

\* C18 (as claimed): while a fetch is suspended in the executor, a close of the
\* handle it fetches, presented by any valid session, can complete at once.
C18_NoGuardAcrossSuspension ==
    \A c \in inflight :
        c.verb = FetchVerb
            => \A t \in DOMAIN sessions :
                ENABLED do_action_close_prepared_statement(Bearer \o t, to_string(c.handle))

\* a step that returns from get flight info
FlightInfoStep == resp'.verb = FlightInfoVerb /\ resp' # resp

\* C19: no step of get flight info or of fetch changes the registry or the
\* session store; a session is never removed or changed and is added only by a
\* successful handshake; an entry is never changed, is added only by the return
\* of the create call that generated its handle, and is removed only by a close.
C19_ReadOnlyVerbs ==
    [][/\ (FlightInfoStep \/ FetchStep) => (statements' = statements /\ sessions' = sessions)
       /\ \A t \in DOMAIN sessions : t \in DOMAIN sessions' /\ sessions'[t] = sessions[t]
       /\ \A t \in DOMAIN sessions' \ DOMAIN sessions :
            resp'.verb = "do_handshake" /\ resp'.status = "ok" /\ resp'.body = <<t>>
       /\ \A h \in DOMAIN statements \cap DOMAIN statements' : statements'[h] = statements[h]
       /\ \A h \in DOMAIN statements' \ DOMAIN statements :
            /\ resp'.verb = CreateVerb
            /\ \E c \in inflight \ inflight' : c.verb = CreateVerb /\ c.handle = h
       /\ \A h \in DOMAIN statements \ DOMAIN statements' :
            resp'.verb = CloseVerb /\ resp'.entry = statements[h]]_vars

\* get flight info has described a registered handle while a fetch of the same
\* handle is with the executor, and the entry and a session are still in place
C19_Witness ==
    /\ resp.verb = FlightInfoVerb
    /\ resp.status = "ok"
    /\ sessions # <<>>
    /\ \E c \in inflight :
        /\ c.verb = FetchVerb
        /\ c.handle = from_slice(resp.req.bytes).val
        /\ c.handle \in DOMAIN statements
        /\ statements[c.handle] = resp.entry

\* C20: an entry is the (plan, extras) pair the planner gives for a query and
\* nothing else; a fetch presented by any session of the store with the ticket
\* of a registered handle is taken up, holds the entry registered under that
\* handle and returns it when the executor succeeds, whichever session created
\* the handle; get flight info returns the ticket and the entry of the handle
\* whatever session, if any, presents it.
C20_NotSessionScoped ==
    [][/\ \A h \in DOMAIN statements' :
            \E q \in Queries : plan_sql(q).ok /\ statements'[h] = plan_sql(q).val
       /\ \A c \in inflight' :
            c.verb = FetchVerb
                => (c.req.session \in DOMAIN sessions' /\ c.entry = statements'[c.handle])
       /\ \A h \in DOMAIN statements :
            (/\ resp' # resp
             /\ resp'.verb = FetchVerb
             /\ resp'.req.session \in DOMAIN sessions
             /\ resp'.req.bytes = MintedTickets[h])
                => /\ \E c \in inflight \ inflight' : c.handle = h /\ c.req = resp'.req
                   /\ resp'.status = "ok" => resp'.entry = statements[h]
       /\ \A h \in DOMAIN statements :
            (resp' # resp /\ resp'.verb = FlightInfoVerb /\ resp'.req.bytes = as_bytes(h))
                => \/ resp'.status = "internal" /\ resp'.message = "Unable to serialize schema"
                   \/ /\ resp'.status = "ok"
                      /\ resp'.body = MintedTickets[h]
                      /\ resp'.entry = statements[h]]_vars

\* a handle that one session created is being fetched, with the entry
\* registered under it, by another session
C20_Witness ==
    /\ resp.verb = CreateVerb
    /\ resp.status = "ok"
    /\ resp.req.session \in DOMAIN sessions
    /\ \E c \in inflight :
        /\ c.verb = FetchVerb
        /\ c.handle = from_slice(resp.body).val
        /\ c.req.session \in DOMAIN sessions \ {resp.req.session}
        /\ c.handle \in DOMAIN statements
        /\ c.entry = statements[c.handle]

\* C21: every close returns success; a close whose metadata names no session,
\* or whose handle bytes are not the text of a handle, leaves the registry as
\* it was; a close that changes the registry had a session and a handle text
\* that parses, and removes exactly the entry under the parsed handle.
C21_CloseBestEffort ==
    [][CloseStep
        => /\ resp'.status = "ok"
           /\ (~resp'.req.authed \/ ~ParseHandleText(resp'.req.bytes).ok)
                => statements' = statements
           /\ statements' # statements
                => /\ resp'.req.authed
                   /\ ParseHandleText(resp'.req.bytes).ok
                   /\ ParseHandleText(resp'.req.bytes).val \in DOMAIN statements
                   /\ statements' = Remove(statements, ParseHandleText(resp'.req.bytes).val)]_vars

\* a close without a session, naming a registered handle by its text, has
\* returned success and the entry is still registered
C21_Witness ==
    /\ resp.verb = CloseVerb
    /\ resp.status = "ok"
    /\ ~resp.req.authed
    /\ ParsedHandleTexts[resp.req.bytes].ok
    /\ ParsedHandleTexts[resp.req.bytes].val \in DOMAIN statements

\* C22: the federated matcher is first-match-wins.  A call whose patterns all
\* compile returns None exactly when no rule matches the query; otherwise it
\* returns the result of the matching rule of least index alone: its
\* precomputed schema and chunk, or the empty schema with the empty chunk if
\* it carries none; in the lazy variant that rule's function is the only one
\* invoked, and when it returns None the result is the empty one, not that of
\* a later rule.
C22_FirstMatchWins ==
    (federated.returned /\ ~federated.panicked)
        => IF \A i \in 1..Len(federated.rules) :
                  ~is_match(federated.rules[i].regex, federated.query)
           THEN federated.result = None /\ federated.invoked = <<>>
           ELSE \E i1 \in 1..Len(federated.rules) :
                   /\ is_match(federated.rules[i1].regex, federated.query)
                   /\ \A j \in 1..(i1 - 1) :
                          ~is_match(federated.rules[j].regex, federated.query)
                   /\ federated.result # None
                   /\ federated.fn = "block_match_rule"
                        => /\ federated.invoked = <<>>
                           /\ federated.result =
                                  IF federated.rules[i1].data = None
                                  THEN Some(EmptyResult)
                                  ELSE federated.rules[i1].data
                   /\ federated.fn = "lazy_block_match_rule"
                        => /\ federated.invoked = <<i1>>
                           /\ federated.result =
                                  IF func(federated.rules[i1].func, federated.query) = None
                                  THEN Some(EmptyResult)
                                  ELSE func(federated.rules[i1].func, federated.query)

\* a lazy call where two rules match, the first one's function returns None
\* and the second one's does not: the result is the empty one
C22_Witness ==
    /\ federated.fn = "lazy_block_match_rule"
    /\ federated.returned
    /\ ~federated.panicked
    /\ \E i1, i2 \in 1..Len(federated.rules) :
           /\ i1 < i2
           /\ is_match(federated.rules[i1].regex, federated.query)
           /\ is_match(federated.rules[i2].regex, federated.query)
           /\ \A j \in 1..(i1 - 1) : ~is_match(federated.rules[j].regex, federated.query)
           /\ func(federated.rules[i1].func, federated.query) = None
           /\ func(federated.rules[i2].func, federated.query) # None
    /\ federated.result = Some(EmptyResult)
    /\ Len(federated.invoked) = 1

\* the rows of the blocks that a sequence of generate calls has returned
RECURSIVE RowsEmitted(_)
RowsEmitted(returned) ==
    IF returned = <<>> THEN 0
    ELSE (IF Head(returned) = None THEN 0 ELSE num_rows(Head(returned)[1]))
         + RowsEmitted(Tail(returned))

\* C23: the source of the table 'one' emits its block exactly once.  The first
\* generate call on a source returns the block (one column 'dummy' of type
\* UInt8, one row, value 1), every later call returns none, so the calls
\* made so far on a source have yielded one row in total.
C23_OneBlockOnce ==
    \A p \in Pipelines :
        /\ ~sources[p].created => outputs[p] = <<>>
        /\ (sources[p].created /\ outputs[p] = <<>>) => sources[p].block # None
        /\ outputs[p] # <<>>
             => /\ outputs[p][1] =
                       Some([schema |-> <<[name |-> "dummy", data_type |-> "UInt8",
                                           nullable |-> FALSE]>>,
                             columns |-> <<<<1>>>>])
                /\ \A k \in 2..Len(outputs[p]) : outputs[p][k] = None
                /\ sources[p].block = None
                /\ RowsEmitted(outputs[p]) = 1

\* a source on which generate was called three times: the block, then none twice
C23_Witness ==
    \E p \in Pipelines :
        /\ sources[p].created
        /\ Len(outputs[p]) = 3
        /\ outputs[p][1] # None
        /\ num_rows(outputs[p][1][1]) = 1
        /\ outputs[p][2] = None
        /\ outputs[p][3] = None

=============================================================================
